---- MODULE Spec2Model ----
(***************************************************************************)
(* Model of custom_components/roborock/calendar.py: the Roborock calendar  *)
(* entity (one entity per device timer kind), its event payload schema and *)
(* interval validator, and the platform setup pass that creates entities.  *)
(*                                                                         *)
(* Python values are records tagged by a "type" field; a dict is a record  *)
(* whose missing keys hold Absent.  Python's None is NoneVal.              *)
(***************************************************************************)
EXTENDS Integers, Sequences, FiniteSets, TLC

VARIABLES
    key,            \* entity_description.key of the modelled entity
    _event_value,   \* RoborockCalendar._event_value, the held timer snapshot
    op,             \* the handler that ran last
    arg,            \* the input that handler was called with
    sent,           \* the commands that handler handed to the transport
    outcome,        \* what that handler returned or raised
    coordinators,   \* domain_data["coordinators"] of the setup pass
    setup_pc,       \* "start" before async_setup_entry ran, "done" after it
    probes,         \* the fetch commands the setup pass issued, in order
    created,        \* the entities the setup pass constructed, in order
    add_calls       \* the argument of every async_add_entities call, in order

vars == <<key, _event_value, op, arg, sent, outcome,
          coordinators, setup_pc, probes, created, add_calls>>

-----------------------------------------------------------------------------
(* Bounds of the model.                                                    *)

MaxCoordinators == 2
MaxDay == 2

-----------------------------------------------------------------------------
(* Values.                                                                 *)

NoneVal == [type |-> "none"]
Absent == [type |-> "absent"]

\* Wall-clock (hour, minute) pairs the inputs are drawn from.
Clock == { <<22, 15>>, <<6, 5>> }
\* Sub-minute (second, microsecond) parts the inputs are drawn from.
SubMinute == { <<0, 0>>, <<30, 0>>, <<0, 1>>, <<59, 999999>> }

DateTime(h, m, s, us) ==
    [type |-> "datetime", hour |-> h, minute |-> m, second |-> s, microsecond |-> us]
DateTimes == { DateTime(c[1], c[2], f[1], f[2]) : c \in Clock, f \in SubMinute }

\* datetime.time objects, as the update service receives them.
TimeOfDay(h, m) == [type |-> "time", hour |-> h, minute |-> m]
TimesOfDay == { TimeOfDay(c[1], c[2]) : c \in Clock }

\* Strings: text that parses as a datetime carries the datetime it parses to.
Str(s) == [type |-> "str", text |-> s, parses |-> NoneVal]
IsoStr(d) == [type |-> "str", text |-> "iso", parses |-> d]

\* The vendor timer value a fetch command decodes to.
Timer(en, s, e) == [type |-> "timer", enabled |-> en, start_time |-> s, end_time |-> e]
Timers == { Timer(en, w[1], w[2]) :
              en \in BOOLEAN,
              w \in { <<TimeOfDay(8, 0), TimeOfDay(8, 30)>>,
                      <<TimeOfDay(22, 15), TimeOfDay(6, 5)>> } }

\* What a fetch command can produce: a timer, None, or a RoborockException.
RoborockException == [type |-> "error", error |-> "RoborockException"]
FetchResults == Timers \cup {NoneVal, RoborockException}

-----------------------------------------------------------------------------
(* The static descriptor table.                                            *)

KindOrder == << "valley_electricity_timer", "dnd_timer" >>
Kinds == { KindOrder[i] : i \in 1..Len(KindOrder) }

VACUUM_CALENDARS ==
    [k \in Kinds |->
        IF k = "valley_electricity_timer"
        THEN [key |-> "valley_electricity_timer",
              name |-> "Valley Electricity",
              get_command |-> "GET_VALLEY_ELECTRICITY_TIMER",
              update_command |-> "SET_VALLEY_ELECTRICITY_TIMER",
              delete_command |-> "CLOSE_VALLEY_ELECTRICITY_TIMER"]
        ELSE [key |-> "dnd_timer",
              name |-> "Do not disturb",
              get_command |-> "GET_DND_TIMER",
              update_command |-> "SET_DND_TIMER",
              delete_command |-> "CLOSE_DND_TIMER"]]

Command(c, params) == [command |-> c, params |-> params]

-----------------------------------------------------------------------------
(* Results of a call: a returned value or a raised exception.              *)

Ok(v) == [status |-> "ok", value |-> v]
Raise(kind, detail) == [status |-> "error", kind |-> kind, detail |-> detail]

-----------------------------------------------------------------------------
(* The event payload schema and the interval validator.                    *)

EVENT_START == "dtstart"
EVENT_END == "dtend"
EVENT_SUMMARY == "summary"

RequiredKeys == { "dtstart", "dtend", "summary" }
OptionalKeys == { "description", "location", "rrule" }
\* "extra" stands for a key the schema does not declare.
PayloadKeys == RequiredKeys \cup OptionalKeys \cup { "extra" }

\* dict.get(key): None when the key is missing.
Get(obj, k) == IF obj[k] = Absent THEN NoneVal ELSE obj[k]

\* Python truthiness of the values a payload holds.
Truthy(v) == v # NoneVal /\ v # Absent

\* cv.datetime: a datetime passes, a string is parsed, anything else fails.
cv_datetime(v) ==
    IF v.type = "datetime" THEN Ok(v)
    ELSE IF v.type = "str" /\ v.parses # NoneVal THEN Ok(v.parses)
    ELSE Raise("schema", [message |-> "Invalid datetime specified"])

\* cv.string: None fails, a string passes.
cv_string(v) ==
    IF v.type = "none" THEN Raise("schema", [message |-> "string value is None"])
    ELSE IF v.type = "str" THEN Ok(v)
    ELSE Ok(Str("str"))

FieldValidator(k, v) ==
    IF k \in { "dtstart", "dtend" } THEN cv_datetime(v) ELSE cv_string(v)

\* The keys of a payload the mapping part of the schema objects to.
BadKeys(event) ==
    { k \in RequiredKeys : event[k] = Absent }
    \cup { k \in RequiredKeys \cup OptionalKeys :
             event[k] # Absent /\ FieldValidator(k, event[k]).status = "error" }
    \cup { k \in { "extra" } : event[k] # Absent }

\* The mapping part of EVENT_SCHEMA: presence, coercion, no undeclared key.
DictSchema(event) ==
    IF BadKeys(event) # {}
    THEN Raise("schema", [fields |-> BadKeys(event)])
    ELSE Ok([k \in PayloadKeys |->
                IF event[k] = Absent THEN Absent
                ELSE FieldValidator(k, event[k]).value])

\* roborock.util.parse_datetime_to_roborock_datetime: the device-canonical
\* form of a timestamp has whole minutes.
Canon(d) == [d EXCEPT !.second = 0, !.microsecond = 0]
parse_datetime_to_roborock_datetime(s, e) == << Canon(s), Canon(e) >>

validate_EndFirst(obj) ==
    IF Truthy(Get(obj, EVENT_START)) /\ Truthy(Get(obj, EVENT_END))
    THEN LET start_time == Get(obj, EVENT_START)
             end_time == Get(obj, EVENT_END)
             parsed == parse_datetime_to_roborock_datetime(start_time, end_time)
         IN  IF parsed[2] # end_time
             THEN Raise("granularity",
                        [field |-> "end", rejected |-> end_time, suggested |-> parsed[2]])
             ELSE IF parsed[1] # start_time
             THEN Raise("granularity",
                        [field |-> "start", rejected |-> start_time, suggested |-> parsed[1]])
             ELSE Ok(obj)
    ELSE Ok(obj)

\* _has_roborock_interval(EVENT_START, EVENT_END).validate
validate(obj) ==
    IF Truthy(Get(obj, EVENT_START)) /\ Truthy(Get(obj, EVENT_END))
    THEN LET start_time == Get(obj, EVENT_START)
             end_time == Get(obj, EVENT_END)
             parsed == parse_datetime_to_roborock_datetime(start_time, end_time)
         IN  IF parsed[1] # start_time
             THEN Raise("granularity",
                        [field |-> "start", rejected |-> start_time, suggested |-> parsed[1]])
             ELSE IF parsed[2] # end_time
             THEN Raise("granularity",
                        [field |-> "end", rejected |-> end_time, suggested |-> parsed[2]])
             ELSE Ok(obj)
    ELSE Ok(obj)

EVENT_SCHEMA_IntervalFirst(event) ==
    LET d == DictSchema(event)
        v == IF event["dtstart"].type = "datetime" /\ event["dtend"].type = "datetime"
             THEN validate(event)
             ELSE Ok(event)
    IN  IF v.status = "error" THEN v
        ELSE IF d.status = "error" THEN d
        ELSE validate(d.value)

\* vol.All(mapping, validate): the mapping first, then the interval validator
\* on what the mapping produced.
EVENT_SCHEMA(event) ==
    LET d == DictSchema(event)
    IN  IF d.status = "error" THEN d ELSE validate(d.value)

-----------------------------------------------------------------------------
(* The calendar entity.  Each handler is an operator from the entity's     *)
(* state and the handler's inputs to what the handler did: the commands it *)
(* handed to the transport, what it returned or raised, and (for the       *)
(* refresh) the snapshot it leaves.  `transport` is the transport's answer *)
(* to a command: a decoded value, or RoborockException.                    *)

Did(o, cmds) == [outcome |-> o, sent |-> cmds]

\* RoborockCoordinatedEntity.send: one command to the transport; a transport
\* failure reaches the caller as a device-communication error.
send(command, params, transport) ==
    Did(IF transport = RoborockException
        THEN Raise("device", [command |-> command])
        ELSE Ok(transport),
        << Command(command, params) >>)

\* RoborockCalendar.async_update: the refresh.
async_update_ClearOnError(k, held, transport) ==
    Did(IF transport = RoborockException
        THEN Raise("device", [command |-> VACUUM_CALENDARS[k].get_command])
        ELSE Ok(NoneVal),
        << Command(VACUUM_CALENDARS[k].get_command, NoneVal) >>) @@
    [ value |-> IF transport = RoborockException THEN NoneVal ELSE transport ]

async_update(k, held, transport) ==
    Did(IF transport = RoborockException
        THEN Raise("device", [command |-> VACUUM_CALENDARS[k].get_command])
        ELSE Ok(NoneVal),
        << Command(VACUUM_CALENDARS[k].get_command, NoneVal) >>) @@
    [ value |-> IF transport = RoborockException THEN held ELSE transport ]

CalendarEvent(k, s, e) ==
    [ type |-> "event",
      start |-> s,
      end |-> e,
      summary |-> VACUUM_CALENDARS[k].name,
      description |-> VACUUM_CALENDARS[k].name,
      location |-> "Home",
      recurrence_id |-> VACUUM_CALENDARS[k].key,
      rrule |-> "FREQ=DAILY",
      uid |-> VACUUM_CALENDARS[k].key ]

event_IgnoreEnabled(k, event_value) ==
    IF Truthy(event_value)
    THEN CalendarEvent(k, event_value.start_time, event_value.end_time)
    ELSE NoneVal

\* RoborockCalendar.event
event(k, event_value) ==
    IF Truthy(event_value) /\ event_value.enabled
    THEN CalendarEvent(k, event_value.start_time, event_value.end_time)
    ELSE NoneVal

\* Days a requested range is drawn from.
Days == 0..MaxDay

async_get_events_InRange(k, event_value, start_date, end_date) ==
    IF Truthy(event(k, event_value)) /\ start_date <= 1 /\ 1 <= end_date
    THEN << event(k, event_value) >>
    ELSE << >>

\* RoborockCalendar.async_get_events
async_get_events(k, event_value, start_date, end_date) ==
    IF Truthy(event(k, event_value)) THEN << event(k, event_value) >> ELSE << >>

async_update_event_SendFirst(k, uid, ev, transport) ==
    LET valid_event == EVENT_SCHEMA(ev)
    IN  IF valid_event.status = "error"
        THEN Did(valid_event, << Command(VACUUM_CALENDARS[k].update_command, << >>) >>)
        ELSE LET start_time == valid_event.value[EVENT_START]
                 end_time == valid_event.value[EVENT_END]
             IN  send(VACUUM_CALENDARS[k].update_command,
                      << start_time.hour, start_time.minute,
                         end_time.hour, end_time.minute >>,
                      transport)

\* RoborockCalendar.async_update_event
async_update_event(k, uid, ev, transport) ==
    LET valid_event == EVENT_SCHEMA(ev)
    IN  IF valid_event.status = "error"
        THEN Did(valid_event, << >>)
        ELSE LET start_time == valid_event.value[EVENT_START]
                 end_time == valid_event.value[EVENT_END]
             IN  send(VACUUM_CALENDARS[k].update_command,
                      << start_time.hour, start_time.minute,
                         end_time.hour, end_time.minute >>,
                      transport)

\* A dict holding the given required fields and at most one further key.
Payload(ds, de, su, xk, xv) ==
    [ k \in PayloadKeys |->
        CASE k = "dtstart" -> ds
          [] k = "dtend" -> de
          [] k = "summary" -> su
          [] OTHER -> IF k = xk THEN xv ELSE Absent ]

async_create_event_NoSummary(k, kwargs, transport) ==
    async_update_event(k, VACUUM_CALENDARS[k].key,
                       [kwargs EXCEPT !["summary"] = Absent], transport)

\* RoborockCalendar.async_create_event
async_create_event(k, kwargs, transport) ==
    async_update_event(k, VACUUM_CALENDARS[k].key, kwargs, transport)

\* RoborockCalendar.async_delete_event
async_delete_event(k, uid, transport) ==
    send(VACUUM_CALENDARS[k].delete_command, NoneVal, transport)

\* RoborockCalendar.async_delete_event_service
async_delete_event_service(k, transport) ==
    async_delete_event(k, VACUUM_CALENDARS[k].key, transport)

\* RoborockCalendar.async_update_event_service
async_update_event_service(k, dtstart, dtend, transport) ==
    async_update_event(k, VACUUM_CALENDARS[k].key,
                       Payload(dtstart, dtend, Absent, "none", Absent), transport)

-----------------------------------------------------------------------------
(* Inputs of the entity's handlers.                                        *)

StartValues ==
    { DateTime(22, 15, 0, 0), DateTime(22, 15, 30, 0), DateTime(22, 15, 0, 1),
      IsoStr(DateTime(22, 15, 0, 0)), Str("Night"), Absent }
EndValues ==
    { DateTime(6, 5, 0, 0), DateTime(6, 5, 30, 0), Str("Night"), Absent }
SummaryValues == { Str("Night"), NoneVal, Absent }

Payloads ==
    { Payload(ds, de, su, "none", Absent) :
        ds \in StartValues, de \in EndValues, su \in SummaryValues }
    \cup
    { Payload(DateTime(22, 15, 0, 0), DateTime(6, 5, 0, 0), Str("Night"), xk, xv) :
        xk \in OptionalKeys \cup { "extra" },
        xv \in { Str("Night"), NoneVal } }

Uids == { "dnd_timer", "unknown_uid" }

\* What the transport answers to an update or delete command.
SendResults == { NoneVal, RoborockException }

-----------------------------------------------------------------------------
(* The entity's state machine: one action per handler.                     *)

EntityInit ==
    /\ key \in Kinds
    /\ _event_value \in Timers
    /\ op = "__init__"
    /\ arg = NoneVal
    /\ sent = << >>
    /\ outcome = Ok(NoneVal)
    /\ coordinators = << >>
    /\ setup_pc = "idle"
    /\ probes = << >>
    /\ created = << >>
    /\ add_calls = << >>

\* The bookkeeping every handler shares: which handler ran, on what, and what
\* it did.
Ran(name, input, did) ==
    /\ op' = name
    /\ arg' = input
    /\ sent' = did.sent
    /\ outcome' = did.outcome
    /\ UNCHANGED << key, coordinators, setup_pc, probes, created, add_calls >>

Refresh ==
    \E transport \in FetchResults :
        LET did == async_update(key, _event_value, transport)
        IN  /\ Ran("async_update", [transport |-> transport], did)
            /\ _event_value' = did.value

ReadEvent ==
    /\ Ran("event", NoneVal, Did(Ok(event(key, _event_value)), << >>))
    /\ UNCHANGED _event_value

GetEvents ==
    \E start_date \in Days, end_date \in Days :
        /\ Ran("async_get_events",
               [start_date |-> start_date, end_date |-> end_date],
               Did(Ok(async_get_events(key, _event_value, start_date, end_date)), << >>))
        /\ UNCHANGED _event_value

CreateEvent ==
    \E kwargs \in Payloads, transport \in SendResults :
        /\ Ran("async_create_event", [event |-> kwargs],
               async_create_event(key, kwargs, transport))
        /\ UNCHANGED _event_value

DeleteEvent ==
    \E uid \in Uids, transport \in SendResults :
        /\ Ran("async_delete_event", [uid |-> uid],
               async_delete_event(key, uid, transport))
        /\ UNCHANGED _event_value

DeleteEventService ==
    \E transport \in SendResults :
        /\ Ran("async_delete_event_service", NoneVal,
               async_delete_event_service(key, transport))
        /\ UNCHANGED _event_value

UpdateEvent ==
    \E uid \in Uids, ev \in Payloads, transport \in SendResults :
        /\ Ran("async_update_event",
               [uid |-> uid, event |-> ev],
               async_update_event(key, uid, ev, transport))
        /\ UNCHANGED _event_value

UpdateEventService ==
    \E dtstart \in TimesOfDay, dtend \in TimesOfDay, transport \in SendResults :
        /\ Ran("async_update_event_service",
               [dtstart |-> dtstart, dtend |-> dtend],
               async_update_event_service(key, dtstart, dtend, transport))
        /\ UNCHANGED _event_value

Next ==
    \/ Refresh
    \/ ReadEvent
    \/ GetEvents
    \/ CreateEvent
    \/ DeleteEvent
    \/ DeleteEventService
    \/ UpdateEvent
    \/ UpdateEventService

Spec == EntityInit /\ [][Next]_vars

-----------------------------------------------------------------------------
(* Properties of the entity.                                               *)

IsUpdate(name) == name \in { "async_update_event", "async_create_event" }

\* A payload the mapping accepts whose coerced start or end is not canonical.
FailsInterval(ev) ==
    /\ DictSchema(ev).status = "ok"
    /\ \/ Canon(DictSchema(ev).value["dtstart"]) # DictSchema(ev).value["dtstart"]
       \/ Canon(DictSchema(ev).value["dtend"]) # DictSchema(ev).value["dtend"]

\* C1: an update whose start or end differs from its canonical form raises
\* the granularity error, hands no command to the transport and leaves the
\* held snapshot as it was; when the start is the one that differs, the error
\* names start.
C1_ValidationFailureIssuesNoCommand ==
    [][ (op' = "async_update_event" /\ FailsInterval(arg'.event)) =>
            /\ outcome'.status = "error"
            /\ outcome'.kind = "granularity"
            /\ sent' = << >>
            /\ _event_value' = _event_value
            /\ (arg'.event["dtstart"].type = "datetime"
                /\ arg'.event["dtstart"].second # 0
                    => outcome'.detail.field = "start") ]_vars

C1_Witness ==
    /\ op = "async_update_event"
    /\ arg.event["dtstart"] = DateTime(22, 15, 30, 0)
    /\ arg.event["dtend"] = DateTime(6, 5, 0, 0)
    /\ outcome.status = "error"
    /\ outcome.kind = "granularity"
    /\ outcome.detail.field = "start"
    /\ sent = << >>

\* The update command of a kind with the interval's four wall-clock numbers.
UpdateCommandFor(k, s, e) ==
    Command(VACUUM_CALENDARS[k].update_command, << s.hour, s.minute, e.hour, e.minute >>)

IsMinuteDateTime(v) == v.type = "datetime" /\ v.second = 0 /\ v.microsecond = 0

\* C2: an update given a minute-granular interval, and nothing else beyond
\* an optional summary, hands the transport exactly the kind's update command
\* with [start.hour, start.minute, end.hour, end.minute], both through
\* async_update_event and through async_update_event_service.
C2_IntervalOnlyUpdateSendsCommand ==
    /\ (/\ op = "async_update_event"
        /\ IsMinuteDateTime(arg.event["dtstart"])
        /\ IsMinuteDateTime(arg.event["dtend"])
        /\ arg.event["summary"] \in { Absent, Str("Night") }
        /\ \A k \in OptionalKeys \cup { "extra" } : arg.event[k] = Absent)
            => sent = << UpdateCommandFor(key, arg.event["dtstart"], arg.event["dtend"]) >>
    /\ op = "async_update_event_service"
            => sent = << UpdateCommandFor(key, arg.dtstart, arg.dtend) >>

\* C4: the event property yields a projection exactly when the held snapshot
\* is present and enabled; the projection carries the snapshot's start and
\* end, the kind's key as uid and recurrence_id, and the daily rule.
C4_EventIffEnabled ==
    op = "event" =>
        /\ (outcome.value # NoneVal) <=> (_event_value # NoneVal /\ _event_value.enabled)
        /\ outcome.value # NoneVal =>
            /\ outcome.value.start = _event_value.start_time
            /\ outcome.value.end = _event_value.end_time
            /\ outcome.value.uid = key
            /\ outcome.value.recurrence_id = key
            /\ outcome.value.rrule = "FREQ=DAILY"

C4_Witness ==
    /\ op = "event"
    /\ key = "dnd_timer"
    /\ _event_value = Timer(TRUE, TimeOfDay(8, 0), TimeOfDay(8, 30))
    /\ outcome.value # NoneVal
    /\ outcome.value.start = TimeOfDay(8, 0)

SchemaDefect(ev) ==
    \/ \E k \in RequiredKeys : ev[k] = Absent
    \/ \E k \in RequiredKeys \cup OptionalKeys :
          ev[k] # Absent /\ FieldValidator(k, ev[k]).status = "error"

\* C7: a create/update payload lacking a required field, or holding a field
\* that fails coercion, is rejected with the schema error and no command is
\* issued, also when its start has a sub-minute part.
C7_SchemaErrorBeforeInterval ==
    (IsUpdate(op) /\ SchemaDefect(arg.event)) =>
        /\ outcome.status = "error"
        /\ outcome.kind = "schema"
        /\ sent = << >>

C7_Witness ==
    /\ op = "async_update_event"
    /\ arg.event["summary"] = Absent
    /\ arg.event["dtstart"] = DateTime(22, 15, 30, 0)
    /\ arg.event["dtend"] = DateTime(6, 5, 0, 0)
    /\ outcome.status = "error"
    /\ outcome.kind = "schema"

\* C8: async_create_event does what async_update_event does with the same
\* payload and the kind's key as uid: the same error, or the same single
\* update command, and no other command.
C8_CreateDelegatesToUpdate ==
    op = "async_create_event" =>
        /\ \E transport \in SendResults :
              Did(outcome, sent) =
                  async_update_event(key, VACUUM_CALENDARS[key].key, arg.event, transport)
        /\ \A i \in 1..Len(sent) : sent[i].command = VACUUM_CALENDARS[key].update_command
        /\ Len(sent) <= 1
        /\ outcome.status = "ok" => Len(sent) = 1

C8_Witness ==
    /\ op = "async_create_event"
    /\ arg.event["summary"] = Str("Night")
    /\ outcome.status = "ok"
    /\ sent = << UpdateCommandFor(key, DateTime(22, 15, 0, 0), DateTime(6, 5, 0, 0)) >>

\* C9: the held snapshot changes only in a refresh, which replaces it with
\* what the fetch returned and keeps it when the fetch raises; every other
\* handler leaves it, and so the event property, as it was.
C9_SnapshotChangesOnlyByRefresh ==
    [][ /\ op' # "async_update" =>
            /\ _event_value' = _event_value
            /\ event(key', _event_value') = event(key, _event_value)
        /\ op' = "async_update" =>
            _event_value' = IF arg'.transport = RoborockException
                            THEN _event_value
                            ELSE arg'.transport ]_vars

C9_Witness ==
    /\ op = "async_delete_event"
    /\ outcome.status = "ok"
    /\ sent = << Command(VACUUM_CALENDARS[key].delete_command, NoneVal) >>
    /\ _event_value # NoneVal
    /\ _event_value.enabled

-----------------------------------------------------------------------------
(* The interval validator on its own: applied to every mapping the schema  *)
(* can hand it, the start and the end each a datetime or missing.          *)

ValidatorInputs ==
    { Payload(ds, de, Str("Night"), "none", Absent) :
        ds \in DateTimes \cup { Absent }, de \in DateTimes \cup { Absent } }

ValidatorInit ==
    /\ op = "input"
    /\ arg \in ValidatorInputs
    /\ outcome = Ok(NoneVal)
    /\ sent = << >>
    /\ key = "dnd_timer"
    /\ _event_value = NoneVal
    /\ coordinators = << >>
    /\ setup_pc = "idle"
    /\ probes = << >>
    /\ created = << >>
    /\ add_calls = << >>

Validate ==
    /\ op = "input"
    /\ op' = "validate"
    /\ outcome' = validate(arg)
    /\ UNCHANGED << arg, sent, key, _event_value,
                    coordinators, setup_pc, probes, created, add_calls >>

ValidatorNext == Validate

ValidatorSpec == ValidatorInit /\ [][ValidatorNext]_vars

Truncated(d) == DateTime(d.hour, d.minute, 0, 0)
HasSubMinute(d) == d.second # 0 \/ d.microsecond # 0

-----------------------------------------------------------------------------
(* The platform setup pass.                                                *)

\* const.MODELS_VACUUM_WITH_MOP: the models the platform serves.
MODELS_VACUUM_WITH_MOP == { "vacuum_with_mop" }
Models == { "vacuum_with_mop", "vacuum_without_mop" }

\* The devices of a config entry; coordinator.data of each holds its model.
Duids == 1..MaxCoordinators
Coordinator(duid, model) == [duid |-> duid, model |-> model]

CoordinatorLists ==
    UNION { { c \in [1..n -> { Coordinator(d, m) : d \in Duids, m \in Models }] :
                \A i, j \in 1..n : i # j => c[i].duid # c[j].duid } :
            n \in 0..MaxCoordinators }

\* What a fetch command answers during setup.
SetupFetchResults ==
    { RoborockException, NoneVal,
      Timer(TRUE, TimeOfDay(8, 0), TimeOfDay(8, 30)),
      Timer(FALSE, TimeOfDay(22, 15), TimeOfDay(6, 5)) }

\* RoborockCalendar.__init__, as async_setup_entry calls it.
RoborockCalendar(sensor, duid, initial_event_value) ==
    [ unique_id |-> << sensor, duid >>,
      key |-> VACUUM_CALENDARS[sensor].key,
      event_value |-> initial_event_value ]

Probe(duid, sensor, answer) ==
    [ duid |-> duid, command |-> VACUUM_CALENDARS[sensor].get_command, answer |-> answer ]

\* The inner loop of async_setup_entry over sensors j.. of coordinator i:
\* the entities it appends and the fetches it issues.
RECURSIVE ProbeSensors(_, _, _, _)
ProbeSensors(coords, fetch, i, j) ==
    IF j > Len(KindOrder) THEN [ entities |-> << >>, probes |-> << >> ]
    ELSE LET sensor == KindOrder[j]
             answer == fetch[<< i, sensor >>]
             initial_event_value ==
                 IF answer = RoborockException THEN NoneVal ELSE answer
             rest == ProbeSensors(coords, fetch, i, j + 1)
         IN  [ entities |->
                  IF initial_event_value = NoneVal
                  THEN rest.entities
                  ELSE << RoborockCalendar(sensor, coords[i].duid, initial_event_value) >>
                       \o rest.entities,
               probes |-> << Probe(coords[i].duid, sensor, answer) >> \o rest.probes ]

\* The outer loop from coordinator i on, `entities` and `issued` being what
\* the earlier coordinators left.  A coordinator's data is the device info
\* the loop has just read the model from, so the `if coordinator.data` test
\* passes; a model outside MODELS_VACUUM_WITH_MOP ends the whole pass.
RECURSIVE SetupLoop(_, _, _, _, _)
SetupLoop(coords, fetch, i, entities, issued) ==
    IF i > Len(coords)
    THEN [ created |-> entities, probes |-> issued, add_calls |-> << entities >> ]
    ELSE IF coords[i].model \notin MODELS_VACUUM_WITH_MOP
    THEN [ created |-> entities, probes |-> issued, add_calls |-> << >> ]
    ELSE LET p == ProbeSensors(coords, fetch, i, 1)
         IN  SetupLoop(coords, fetch, i + 1, entities \o p.entities, issued \o p.probes)

\* async_setup_entry
async_setup_entry(coords, fetch) == SetupLoop(coords, fetch, 1, << >>, << >>)

SetupInit ==
    /\ coordinators \in CoordinatorLists
    /\ setup_pc = "start"
    /\ probes = << >>
    /\ created = << >>
    /\ add_calls = << >>
    /\ op = "__init__"
    /\ arg = NoneVal
    /\ sent = << >>
    /\ outcome = Ok(NoneVal)
    /\ key = "dnd_timer"
    /\ _event_value = NoneVal

SetupEntry ==
    /\ setup_pc = "start"
    /\ \E fetch \in [ (1..Len(coordinators)) \X Kinds -> SetupFetchResults ] :
          LET r == async_setup_entry(coordinators, fetch)
          IN  /\ setup_pc' = "done"
              /\ op' = "async_setup_entry"
              /\ arg' = [fetch |-> fetch]
              /\ probes' = r.probes
              /\ created' = r.created
              /\ add_calls' = r.add_calls
    /\ UNCHANGED << coordinators, sent, outcome, key, _event_value >>

SetupNext == SetupEntry

SetupSpec == SetupInit /\ [][SetupNext]_vars

\* The entities some async_add_entities call was given.
Registered ==
    UNION { { add_calls[n][m] : m \in 1..Len(add_calls[n]) } : n \in 1..Len(add_calls) }
Created == { created[m] : m \in 1..Len(created) }
Probed(duid, sensor) ==
    \E n \in 1..Len(probes) :
        probes[n].duid = duid /\ probes[n].command = VACUUM_CALENDARS[sensor].get_command

NoValue(answer) == answer \in { RoborockException, NoneVal }

\* C6: in a finished pass, a probed kind whose fetch raised or returned None
\* got no entity, every other kind of that device was probed too, and each of
\* those whose fetch returned a value got an entity created and registered.
C6_FailedKindDoesNotBlockOthers ==
    setup_pc = "done" =>
        \A i \in 1..Len(coordinators) : \A k \in Kinds :
            (Probed(coordinators[i].duid, k) /\ NoValue(arg.fetch[<< i, k >>])) =>
                /\ \A v \in SetupFetchResults :
                      RoborockCalendar(k, coordinators[i].duid, v) \notin Created
                /\ \A k2 \in Kinds \ { k } :
                      /\ Probed(coordinators[i].duid, k2)
                      /\ ~NoValue(arg.fetch[<< i, k2 >>]) =>
                            LET e == RoborockCalendar(k2, coordinators[i].duid,
                                                      arg.fetch[<< i, k2 >>])
                            IN  e \in Created /\ e \in Registered

\* C10: a pass ends with one async_add_entities call holding exactly the
\* entities of the (device, kind) pairs whose device is a mop-capable model
\* and whose fetch returned a value, whatever other devices the list holds.
C10_RegistersEveryMopDeviceTimer ==
    setup_pc = "done" =>
        /\ Len(add_calls) = 1
        /\ Registered =
             { RoborockCalendar(k, coordinators[i].duid, arg.fetch[<< i, k >>]) :
                 << i, k >> \in
                   { x \in (1..Len(coordinators)) \X Kinds :
                       /\ coordinators[x[1]].model \in MODELS_VACUUM_WITH_MOP
                       /\ ~NoValue(arg.fetch[x]) } }

====
